---- MODULE Spec2Model ----
(***************************************************************************)
(* A model of guhit's reconciliation engine (src/src/index.js): the root   *)
(* mount (mount), the dynamic regions fed by streams (mountChildStream),   *)
(* the static diff (diffVNode, diffVNodes) and the reconciler              *)
(* (mountVNodes, remountVNodes, updateVElement).                           *)
(*                                                                         *)
(* Physical nodes are numbered 1, 2, ... in creation order; container 0 is *)
(* the target of the root mount and an element node is the container of    *)
(* its own children.  A JS Map is a function with a finite domain; the     *)
(* value null (a tombstone) is Null.  Virtual nodes are values: two vnodes *)
(* are "identical" when they are equal.                                    *)
(***************************************************************************)
EXTENDS Integers, Sequences, FiniteSets, TLC

VARIABLES world, before, last, emits, scen

vars == <<world, before, last, emits, scen>>

\* ------------------------------------------------------------------ bounds
MaxEmits == 5

\* ------------------------------------------------------------------ values
Null == 0
None == -1
EmptyMap == [x \in {} |-> Null]

\* a value of an attrs, style or events map: a constant (for events, the
\* handler function) or a stream of values
Const(v) == [stream |-> FALSE, v |-> v]
Strm(v) == [stream |-> TRUE, v |-> v]
\* what objA[key] is where objA has no such key (diffObject, 68 and 74)
Undefined == [stream |-> FALSE, v |-> "undefined"]
\* what a subscription of distinct() (50-63) has let through before its
\* first value
Unseen == "unseen"
\* the ref of a vnode made without one (VNode.constructor, 91-95)
NoRef == ""
NoProps == [attrs |-> EmptyMap, style |-> EmptyMap, events |-> EmptyMap, ref |-> NoRef]
Attrs(a) == [NoProps EXCEPT !.attrs = a]

\* VText (index.js 97-102), VElement (104-123) and a Stream as values
VNode(kind, text, name, props, children, sid) ==
  [kind |-> kind, text |-> text, name |-> name, children |-> children, sid |-> sid,
   attrs |-> props.attrs, style |-> props.style, events |-> props.events,
   ref |-> props.ref]
T(s) == VNode("text", s, "", NoProps, <<>>, 0)
\* t(text, ref) (604) and e(name, { ref }, children) (600-603)
TR(s, ref) == VNode("text", s, "", [NoProps EXCEPT !.ref = ref], <<>>, 0)
ER(n, ref, ch) == VNode("elem", "", n, [NoProps EXCEPT !.ref = ref], ch, 0)
EP(n, props, ch) == VNode("elem", "", n, props, ch, 0)
E(n, ch) == EP(n, NoProps, ch)
S(i) == VNode("stream", "", "", NoProps, <<>>, i)
\* raw list members that are not vnodes yet: null and a string/number
Nil == VNode("null", "", "", NoProps, <<>>, 0)
Raw(s) == VNode("raw", s, "", NoProps, <<>>, 0)
\* a boolean and a plain object as list members; text is what `${text}`
\* (100) makes of them
Bool(b) == VNode("bool", b, "", NoProps, <<>>, 0)
Obj == VNode("object", "[object Object]", "", NoProps, <<>>, 0)

IsStream(v) == v.kind = "stream"
IsVText(v) == v.kind = "text"
IsVElement(v) == v.kind = "elem"

SetMax(X) == CHOOSE x \in X : \A y \in X : y <= x
SetMin(X) == CHOOSE x \in X : \A y \in X : x <= y

\* getSafeVNodes (320-326): drop null/undefined, wrap anything else in t()
RECURSIVE getSafeVNodes(_)
getSafeVNodes(vnodes) ==
  IF vnodes = <<>> THEN <<>>
  ELSE LET child == Head(vnodes)
           rest == getSafeVNodes(Tail(vnodes))
       IN IF child.kind = "null" THEN rest
          ELSE IF IsStream(child) \/ IsVText(child) THEN <<child>> \o rest
          ELSE IF IsVElement(child)
               THEN <<child>> \o rest
               ELSE <<T(child.text)>> \o rest

\* latests.map((vnode, index) => ({ vnode, index }))  (577, 696)
Indexed(vnodes) == [i \in 1..Len(vnodes) |-> [vnode |-> vnodes[i], index |-> i - 1]]

\* ------------------------------------------------------------- the diff
Lookup(obj, key) == IF key \in DOMAIN obj THEN obj[key] ELSE Undefined
Restrict(obj, keys) == [k \in keys |-> obj[k]]
Without(obj, key) == [k \in DOMAIN obj \ {key} |-> obj[k]]

\* diffObject without its comparisons: every key is reported on both sides
diffObject_all(objA, objB) == [left |-> objA, right |-> objB]

\* diffObject (65-81)
diffObject(objA, objB) ==
  [left |-> Restrict(objA, {keyA \in DOMAIN objA : objA[keyA] # Lookup(objB, keyA)}),
   right |-> Restrict(objB, {keyB \in DOMAIN objB : objB[keyB] # Lookup(objA, keyB)})]

\* diffVNode without its comparison of the two texts
diffVNode_blind(vnodeA, vnodeB) ==
  IF IsVElement(vnodeA) /\ IsVElement(vnodeB) /\ vnodeA.name # vnodeB.name THEN "replace"
  ELSE IF (IsVElement(vnodeA) /\ IsVText(vnodeB)) \/ (IsVText(vnodeA) /\ IsVElement(vnodeB))
       THEN "replace"
  ELSE "none"

\* diffVNode (246-270)
diffVNode(vnodeA, vnodeB) ==
  IF IsVElement(vnodeA) /\ IsVElement(vnodeB) /\ vnodeA.name # vnodeB.name THEN "replace"
  ELSE IF (IsVElement(vnodeA) /\ IsVText(vnodeB)) \/ (IsVText(vnodeA) /\ IsVElement(vnodeB))
       THEN "replace"
  ELSE IF IsVText(vnodeA) /\ IsVText(vnodeB) /\ vnodeA.text # vnodeB.text THEN "text"
  ELSE "none"

\* a verdict that looks at the previous item before the latest one: a
\* stream that follows a stream is an addition only
DiffAt_prevFirst(prevs, latests, index) ==
  LET prev == prevs[index + 1] IN
  IF index >= Len(latests) THEN "remove"
  ELSE LET latest == latests[index + 1] IN
       IF IsStream(prev) THEN "add"
       ELSE IF IsStream(latest) THEN "replace"
       ELSE LET diffType == diffVNode(prev, latest) IN
            IF diffType = "replace" THEN "replace"
            ELSE IF diffType = "text" THEN "text"
            ELSE IF IsVElement(latest) THEN "element"
            ELSE "none"

\* the verdict of the forEach body of diffVNodes (279-303) at 0-based index
DiffAt(prevs, latests, index) ==
  LET prev == prevs[index + 1] IN
  IF index >= Len(latests) THEN "remove"
  ELSE LET latest == latests[index + 1] IN
       IF IsStream(latest) THEN "replace"
       ELSE IF IsStream(prev) THEN "add"
       ELSE LET diffType == diffVNode(prev, latest) IN
            IF diffType = "replace" THEN "replace"
            ELSE IF diffType = "text" THEN "text"
            ELSE IF IsVElement(latest) THEN "element"
            ELSE "none"

\* the entries of a list at the indices a predicate keeps, in index order
RECURSIVE Pick(_, _, _, _)
Pick(vnodes, keep, from, i) ==
  IF i > Len(vnodes) THEN <<>>
  ELSE (IF i - 1 \in keep THEN <<[vnode |-> vnodes[i], index |-> i - 1]>> ELSE <<>>)
       \o Pick(vnodes, keep, from, i + 1)

\* diffVNodes (273-318)
diffVNodes(prevs, latests) ==
  LET idx == 0..(Len(prevs) - 1)
      rem == {i \in idx : DiffAt(prevs, latests, i) \in {"remove", "replace"}}
      add == {i \in idx : DiffAt(prevs, latests, i) \in {"replace", "add"}}
      ele == {i \in idx : DiffAt(prevs, latests, i) = "element"}
      txt == {i \in idx : DiffAt(prevs, latests, i) = "text"}
      excess == Len(prevs)..(Len(latests) - 1)
  IN [additionals |-> Pick(latests, add, 0, 1) \o Pick(latests, excess, 0, 1),
      removals |-> Pick(prevs, rem, 0, 1),
      elements |-> Pick(latests, ele, 0, 1),
      texts |-> Pick(latests, txt, 0, 1)]

\* ------------------------------------------------------ maps of positions
\* get (479-480, 617-618)
Get(spaces, space, position) ==
  IF space \in DOMAIN spaces /\ position \in DOMAIN spaces[space]
  THEN spaces[space][position] ELSE Null

\* getHeadSpaceKey (328-336)
getHeadSpaceKey(spaces, space) ==
  LET above == {k \in DOMAIN spaces : k > space}
  IN IF above = {} THEN None ELSE SetMin(above)

\* getHeadPositionKey (338-348)
getHeadPositionKey(positions, position) ==
  LET above == {k \in DOMAIN positions : positions[k] # Null /\ k > position}
  IN IF above = {} THEN None ELSE SetMin(above)

\* getLargestPositionKey (350-351), getSmallestPositionKey (353-354)
getLargestPositionKey(positions) == SetMax(DOMAIN positions)
getSmallestPositionKey(positions) == SetMin(DOMAIN positions)

\* the re-keying loop of move (501-510, 626-635)
ShiftKeys(positions, position, length) ==
  LET keys == {IF position > k THEN k ELSE k + length : k \in DOMAIN positions}
  IN [k \in keys |-> positions[IF k < position THEN k ELSE k - length]]

\* move (495-511, 620-636) on one map of spaces
MoveSpaces(spaces, space, position, length) ==
  IF space \notin DOMAIN spaces \/ Get(spaces, space, position) = Null THEN spaces
  ELSE [spaces EXCEPT ![space] = ShiftKeys(spaces[space], position, length)]

\* spaces.get(space).set(position, child), the space created when missing
SetSlot(spaces, space, position, child) ==
  LET sp == IF space \in DOMAIN spaces THEN spaces ELSE spaces @@ (space :> EmptyMap)
      ps == sp[space]
  IN [sp EXCEPT ![space] =
        [k \in DOMAIN ps \cup {position} |-> IF k = position THEN child ELSE ps[k]]]

\* an external position that counts, for each space before, the largest
\* key that still holds a record instead of the largest key
getExternalPosition_occupied(spaces, space, position) ==
  LET below == {k \in DOMAIN spaces : k < space}
      Held(k) == {p \in DOMAIN spaces[k] : spaces[k][p] # Null}
      Width(k) == (IF Held(k) = {} THEN 0 ELSE SetMax(Held(k)))
                  + (IF k # 0 THEN 1 ELSE 0)
      RECURSIVE Sum(_)
      Sum(X) == IF X = {} THEN 0
                ELSE LET k == CHOOSE x \in X : TRUE IN Width(k) + Sum(X \ {k})
  IN position + (IF space # 0 THEN 1 ELSE 0) + Sum(below)

\* getExternalPosition (482-493)
getExternalPosition(spaces, space, position) ==
  LET below == {k \in DOMAIN spaces : k < space}
      Width(k) == (IF DOMAIN spaces[k] = {} THEN 0 ELSE getLargestPositionKey(spaces[k]))
                  + (IF k # 0 THEN 1 ELSE 0)
      RECURSIVE Sum(_)
      Sum(X) == IF X = {} THEN 0
                ELSE LET k == CHOOSE x \in X : TRUE IN Width(k) + Sum(X \ {k})
  IN position + (IF space # 0 THEN 1 ELSE 0) + Sum(below)

\* ------------------------------------------------------------ the world
\* world.dom[c]   the physical children of container c, in order
\* world.ni[n]    the mounted child record of physical node n: its vnode
\*                (child.vnode), its textContent, and who created it
\* world.ctl[c]   the closure state of mount(c, ...): spaces, cancellations
\* world.reg[r]   the closure state of the r-th mountChildStream call
\* world.ops      the physical operations issued by the current handler
\* world.err      the current handler has thrown
\* world.calls    the calls the current handler has made, in order: those of
\*                move, insert and remove of a mount or a region, with, for
\*                insert and remove, the map of spaces before (pre) and
\*                after (post), and the length of the record at return
\*                (end, 0 until then), and the steps
\*                of remountVNodes; `of` is the remountVNodes call running
\* world.cur      the entry of the remountVNodes call now running, or 0
\* before is the world as the last handler found it, last says which
\* handler that was and what it was given
Op(kind, parent, node, text) == [op |-> kind, parent |-> parent, node |-> node, text |-> text]

Throw(w) == [w EXCEPT !.err = TRUE]

IndexOf(seq, x) == CHOOSE i \in 1..Len(seq) : seq[i] = x
InSeq(seq, x) == \E i \in 1..Len(seq) : seq[i] = x

\* insertBefore that ignores its reference node and appends
InsertBefore_append(seq, n, head) == Append(seq, n)

\* insertBefore that ignores its reference node and prepends
InsertBefore_front(seq, n, head) == <<n>> \o seq

\* parent.insertBefore(node, head) on the list of children
InsertBefore(seq, n, head) ==
  IF head = Null THEN Append(seq, n)
  ELSE LET i == IndexOf(seq, head)
       IN SubSeq(seq, 1, i - 1) \o <<n>> \o SubSeq(seq, i, Len(seq))

\* parent.removeChild(node) on the list of children
RemoveChild(seq, n) == SelectSeq(seq, LAMBDA x : x # n)

\* a search that never finds a head node
FindHead_none(spaces, headSpaceKey, position) == Null

\* the search for the head node in mount.insert (644-659)
RECURSIVE FindHead(_, _, _)
FindHead(spaces, headSpaceKey, position) ==
  IF headSpaceKey = None THEN Null
  ELSE LET headPositionKey == getHeadPositionKey(spaces[headSpaceKey], position)
       IN IF headPositionKey # None THEN spaces[headSpaceKey][headPositionKey]
          ELSE FindHead(spaces, getHeadSpaceKey(spaces, headSpaceKey), -1)

\* ---------------------------------------------------- attrs, style, events
\* the bookkeeping of a physical element: the attributes and the style
\* properties it shows, and the unmounts maps of its child record (231),
\* each key's subscription with the stream or handler it is for
NoUnmounts == [attrs |-> EmptyMap, style |-> EmptyMap, events |-> EmptyMap]

\* pipe(..., listen(..., cancel)) (142-146, 157-161, 171-174): a binding
\* of element n is subscribed; world.ni[n].bound holds the bindings that
\* no cancel.run() has ended, oldest first
Bind(w, n, which, key, of) ==
  [w EXCEPT !.ni[n].bound = Append(@, [which |-> which, key |-> key, of |-> of])]

\* cancel.run() of the teardown recorded for a key: the binding subscribed
\* last for the key ends
Unbind(bound, which, key) ==
  LET at == {i \in 1..Len(bound) : bound[i].which = which /\ bound[i].key = key}
  IN IF at = {} THEN bound
     ELSE SubSeq(bound, 1, SetMax(at) - 1) \o SubSeq(bound, SetMax(at) + 1, Len(bound))

\* mountNodeAttrs (135-148)
RECURSIVE mountNodeAttrs(_, _, _, _)
mountNodeAttrs(w, n, attrs, keys) ==
  IF keys = {} THEN w
  ELSE LET key == CHOOSE k \in keys : TRUE
           attr == attrs[key]
           w1 == IF ~attr.stream
                 THEN [w EXCEPT !.ni[n].attrs = (key :> attr.v) @@ @,
                                !.ops = Append(@, Op("setAttribute", 0, n, key))]
                 ELSE Bind([w EXCEPT !.ni[n].unmounts.attrs =
                                        (key :> [of |-> attr.v, seen |-> Unseen]) @@ @],
                           n, "attrs", key, attr.v)
       IN mountNodeAttrs(w1, n, attrs, keys \ {key})

\* mountNodeStyle (150-163)
RECURSIVE mountNodeStyle(_, _, _, _)
mountNodeStyle(w, n, style, keys) ==
  IF keys = {} THEN w
  ELSE LET key == CHOOSE k \in keys : TRUE
           value == style[key]
           w1 == IF ~value.stream
                 THEN [w EXCEPT !.ni[n].style = (key :> value.v) @@ @,
                                !.ops = Append(@, Op("setStyle", 0, n, key))]
                 ELSE Bind([w EXCEPT !.ni[n].unmounts.style =
                                        (key :> [of |-> value.v, seen |-> Unseen]) @@ @],
                           n, "style", key, value.v)
       IN mountNodeStyle(w1, n, style, keys \ {key})

\* mountNodeEvents (165-177)
RECURSIVE mountNodeEvents(_, _, _, _)
mountNodeEvents(w, n, events, keys) ==
  IF keys = {} THEN w
  ELSE LET key == CHOOSE k \in keys : TRUE
           w1 == Bind([w EXCEPT !.ni[n].unmounts.events =
                                   (key :> [of |-> events[key].v, seen |-> Unseen]) @@ @,
                                !.ops = Append(@, Op("listen", 0, n, key))],
                      n, "events", key, events[key].v)
       IN mountNodeEvents(w1, n, events, keys \ {key})

\* a teardown that is never invoked and stays recorded
Unsubscribe_never(w, n, which, key) == w

\* unmount(); unmounts.delete(key) (182-186, 193-197, 203-207) on the
\* unmounts map named which
Unsubscribe(w, n, which, key) ==
  IF key \in DOMAIN w.ni[n].unmounts[which]
  THEN [w EXCEPT !.ni[n].unmounts[which] = Without(@, key),
                 !.ni[n].bound = Unbind(@, which, key),
                 !.ops = Append(@, Op("unsubscribe", 0, n, key))]
  ELSE w

\* unmountNodeAttrs (179-188), handed the unmounts map named which
RECURSIVE unmountNodeAttrs(_, _, _, _)
unmountNodeAttrs(w, n, which, keys) ==
  IF keys = {} THEN w
  ELSE LET key == CHOOSE k \in keys : TRUE
           w1 == [w EXCEPT !.ni[n].attrs = Without(@, key),
                           !.ops = Append(@, Op("removeAttribute", 0, n, key))]
       IN unmountNodeAttrs(Unsubscribe(w1, n, which, key), n, which, keys \ {key})

\* unmountNodeStyle (190-199)
RECURSIVE unmountNodeStyle(_, _, _)
unmountNodeStyle(w, n, keys) ==
  IF keys = {} THEN w
  ELSE LET key == CHOOSE k \in keys : TRUE
           w1 == [w EXCEPT !.ni[n].style = Without(@, key),
                           !.ops = Append(@, Op("removeProperty", 0, n, key))]
       IN unmountNodeStyle(Unsubscribe(w1, n, "style", key), n, keys \ {key})

\* unmountNodeEvents (201-209)
RECURSIVE unmountNodeEvents(_, _, _)
unmountNodeEvents(w, n, keys) ==
  IF keys = {} THEN w
  ELSE LET key == CHOOSE k \in keys : TRUE
       IN unmountNodeEvents(Unsubscribe(w, n, "events", key), n, keys \ {key})

\* mountNodeProps (211-216)
mountNodeProps(w, n, velement) ==
  mountNodeEvents(
    mountNodeStyle(
      mountNodeAttrs(w, n, velement.attrs, DOMAIN velement.attrs),
      n, velement.style, DOMAIN velement.style),
    n, velement.events, DOMAIN velement.events)

\* unmountNodeProps (218-222)
unmountNodeProps(w, n, velement) ==
  unmountNodeEvents(
    unmountNodeStyle(
      unmountNodeAttrs(w, n, "attrs", DOMAIN velement.attrs),
      n, DOMAIN velement.style),
    n, DOMAIN velement.events)

\* ref.control.open(); ref.control.next([node, true]) (661-664) and
\* ref.control.next([node, false]); ref.control.done() (680-683): what the
\* handle of the child's vnode is told, in order
RefNext(w, n, mounted) ==
  LET ref == w.ni[n].vnode.ref
      told == IF ref \in DOMAIN w.refs THEN w.refs[ref] ELSE <<>>
  IN IF ref = NoRef THEN w
     ELSE [w EXCEPT !.refs = (ref :> Append(told, [node |-> n, mounted |-> mounted])) @@ @]

\* a call is entered: its entry is appended to world.calls
Enter(w, call, ok, id, space, position, length, node) ==
  [w EXCEPT !.calls = Append(@,
     [call |-> call, ok |-> ok, id |-> id, space |-> space, position |-> position,
      length |-> length, node |-> node,
      pre |-> IF call \notin {"insert", "remove"} THEN EmptyMap
              ELSE IF ok = "mount" THEN w.ctl[id].spaces ELSE w.reg[id].spaces,
      post |-> EmptyMap, end |-> 0, of |-> w.cur])]

\* the call of entry i returns, unless it has thrown
Leave(w, i) ==
  IF w.err THEN w
  ELSE LET e == w.calls[i]
       IN [w EXCEPT !.calls[i] =
             [e EXCEPT !.post = IF e.call \notin {"insert", "remove"} THEN EmptyMap
                                ELSE IF e.ok = "mount" THEN w.ctl[e.id].spaces
                                ELSE w.reg[e.id].spaces,
                       !.end = Len(w.calls)]]

\* mount.move (620-636)
MountMove(w, c, space, position, length) ==
  IF w.err THEN w
  ELSE LET w0 == Enter(w, "move", "mount", c, space, position, length, Null)
       IN Leave([w0 EXCEPT !.ctl[c].spaces = MoveSpaces(@, space, position, length)],
                Len(w0.calls))

\* mount.insert (638-669)
MountInsert(w, c, n, space, position) ==
  IF w.err THEN w
  ELSE LET w0 == Enter(w, "insert", "mount", c, space, position, 0, n)
           sp0 == w.ctl[c].spaces
           sp1 == IF space \in DOMAIN sp0 THEN sp0 ELSE sp0 @@ (space :> EmptyMap)
           sp2 == IF Get(sp1, space, position) # Null
                  THEN MoveSpaces(sp1, space, position, 1) ELSE sp1
           head == FindHead(sp2, space, position)
       IN IF head # Null /\ ~InSeq(w.dom[c], head) THEN Throw(w0)
          ELSE Leave(RefNext([w0 EXCEPT !.ctl[c].spaces = SetSlot(sp2, space, position, n),
                                        !.dom[c] = InsertBefore(@, n, head),
                                        !.ops = Append(@, Op("insert", c, n, ""))],
                             n, TRUE),
                     Len(w0.calls))

\* mount.remove (671-684)
MountRemove(w, c, space, position) ==
  IF w.err THEN w
  ELSE LET w0 == Enter(w, "remove", "mount", c, space, position, 0, Null)
           child == Get(w.ctl[c].spaces, space, position)
           w1 == IF child # Null /\ IsVElement(w.ni[child].vnode)
                 THEN unmountNodeProps(w0, child, w.ni[child].vnode)
                 ELSE w0
       IN IF child = Null THEN Leave(w0, Len(w0.calls))
          ELSE IF ~InSeq(w.dom[c], child) THEN Throw(w1)
          ELSE Leave(RefNext([w1 EXCEPT !.ctl[c].spaces[space][position] = Null,
                                        !.dom[c] = RemoveChild(@, child),
                                        !.ops = Append(@, Op("remove", c, child, ""))],
                             child, FALSE),
                     Len(w0.calls))

RECURSIVE RegionInsert(_, _, _, _, _)
RECURSIVE RegionRemove(_, _, _, _)
RECURSIVE RegionUnmount(_, _)
RECURSIVE CancelEach(_, _, _)
RECURSIVE RemoveEach(_, _, _)
RECURSIVE MountRemoveEach(_, _, _)
RECURSIVE mountVNodes(_, _, _, _, _, _)
RECURSIVE RegionNext(_, _, _)
RECURSIVE createChildNode(_, _, _, _, _)
RECURSIVE remountVNodes(_, _, _, _, _, _)
RECURSIVE updateVElement(_, _, _)
RECURSIVE RemovalsEach(_, _, _, _, _)
RECURSIVE TextsEach(_, _, _, _, _)
RECURSIVE ElementsEach(_, _, _, _, _)

\* mountChildStream.move (495-511): local to the region's own spaces
RegionMove(w, r, space, position, length) ==
  IF w.err THEN w
  ELSE LET w0 == Enter(w, "move", "region", r, space, position, length, Null)
       IN Leave([w0 EXCEPT !.reg[r].spaces = MoveSpaces(@, space, position, length)],
                Len(w0.calls))

\* the _move a region was given by mountVNodes (364): the owner's move at
\* the region's logical index; updateVElement hands on control.move, which
\* mount does not return (703), so calling it throws
ParentMove(w, r, position, length) ==
  LET R == w.reg[r] IN
  IF w.err THEN w
  ELSE IF R.pk = "mount"
       THEN IF R.mv THEN MountMove(w, R.pid, R.idx, position, length) ELSE Throw(w)
       ELSE RegionMove(w, R.pid, R.idx, position, length)

\* the _insert a region was given by mountVNodes (362)
ParentInsert(w, r, n, position) ==
  LET R == w.reg[r] IN
  IF R.pk = "mount" THEN MountInsert(w, R.pid, n, R.idx, position)
  ELSE RegionInsert(w, R.pid, n, R.idx, position)

\* the _remove a region was given by mountVNodes (363)
ParentRemove(w, r, position) ==
  LET R == w.reg[r] IN
  IF R.pk = "mount" THEN MountRemove(w, R.pid, R.idx, position)
  ELSE RegionRemove(w, R.pid, R.idx, position)

\* an adjustment that shifts the region's own slots at an occupied slot
\* and never asks the enclosing region to move
InsertAdjust_local(w, r, space, position) ==
  IF Get(w.reg[r].spaces, space, position) # Null
  THEN RegionMove(w, r, space, position, 1)
  ELSE w

\* the adjustment of the enclosing region before an insert (516-537)
InsertAdjust(w, r, space, position) ==
  LET sp == w.reg[r].spaces IN
  IF Get(sp, space, position) # Null
  THEN RegionMove(ParentMove(w, r, getExternalPosition(sp, space, position), 1),
                  r, space, position, 1)
  ELSE LET headSpaceKey == getHeadSpaceKey(sp, space) IN
       IF headSpaceKey # None /\ DOMAIN sp[headSpaceKey] # {} /\ DOMAIN sp[space] # {}
          /\ position > getLargestPositionKey(sp[space])
       THEN ParentMove(w, r,
              getExternalPosition(sp, headSpaceKey, getSmallestPositionKey(sp[headSpaceKey])),
              position - getLargestPositionKey(sp[space]))
       ELSE w

\* create a space if it does not exist yet (514)
InsertSpace(w, r, space) ==
  IF space \in DOMAIN w.reg[r].spaces THEN w
  ELSE [w EXCEPT !.reg[r].spaces = @ @@ (space :> EmptyMap)]

\* _insert(child, getExternalPosition(space, position)) (539)
InsertOutward(w, r, n, space, position) ==
  IF w.err THEN w
  ELSE ParentInsert(w, r, n, getExternalPosition(w.reg[r].spaces, space, position))

\* spaces.get(space).set(position, child) (540), the end of the call of
\* entry i
InsertStore(w, r, n, space, position, i) ==
  IF w.err THEN w
  ELSE Leave([w EXCEPT !.reg[r].spaces = SetSlot(@, space, position, n)], i)

\* mountChildStream.insert (513-541)
RegionInsert(w, r, n, space, position) ==
  IF w.err THEN w
  ELSE LET w0 == Enter(w, "insert", "region", r, space, position, 0, n)
       IN InsertStore(
            InsertOutward(InsertAdjust(InsertSpace(w0, r, space), r, space, position),
                          r, n, space, position),
            r, n, space, position, Len(w0.calls))

\* a store that deletes the key of the slot instead of leaving a
\* tombstone
RemoveStore_delete(w, r, space, position, i) ==
  IF w.err THEN w
  ELSE Leave([w EXCEPT !.reg[r].spaces[space] = Restrict(@, DOMAIN @ \ {position})], i)

\* spaces.get(space).set(position, null) (548), the end of the call of
\* entry i
RemoveStore(w, r, space, position, i) ==
  IF w.err THEN w
  ELSE Leave([w EXCEPT !.reg[r].spaces[space][position] = Null], i)

\* mountChildStream.remove (543-549)
RegionRemove(w, r, space, position) ==
  IF w.err THEN w
  ELSE LET w0 == Enter(w, "remove", "region", r, space, position, 0, Null)
           sp == w.reg[r].spaces IN
       IF Get(sp, space, position) = Null THEN Leave(w0, Len(w0.calls))
       ELSE RemoveStore(ParentRemove(w0, r, getExternalPosition(sp, space, position)),
                        r, space, position, Len(w0.calls))

\* the slots of a map of spaces, as (space, position) pairs
Slots(spaces) == UNION {{<<s, p>> : p \in DOMAIN spaces[s]} : s \in DOMAIN spaces}

\* cancellations.forEach(cancel => cancel()) (386, 553, 687)
CancelEach(w, cancels, todo) ==
  IF todo = {} \/ w.err THEN w
  ELSE LET k == SetMin(todo)
           R == w.reg[cancels[k]]
       IN CancelEach(RegionUnmount(Enter(w, "cancel", R.pk, R.pid, R.idx, 0, 0, cancels[k]),
                                   cancels[k]),
                     cancels, todo \ {k})

\* spaces.forEach(space => space.forEach(remove)) in a region (554-556)
RemoveEach(w, r, todo) ==
  IF todo = {} \/ w.err THEN w
  ELSE LET k == CHOOSE x \in todo : \A y \in todo :
                   x[1] < y[1] \/ (x[1] = y[1] /\ x[2] <= y[2])
       IN RemoveEach(RegionRemove(w, r, k[1], k[2]), r, todo \ {k})

\* spaces.forEach(space => space.forEach(remove)) in a mount (688-690)
MountRemoveEach(w, c, todo) ==
  IF todo = {} \/ w.err THEN w
  ELSE LET k == CHOOSE x \in todo : \A y \in todo :
                   x[1] < y[1] \/ (x[1] = y[1] /\ x[2] <= y[2])
       IN MountRemoveEach(MountRemove(w, c, k[1], k[2]), c, todo \ {k})

\* cancellations.forEach(cancel => cancel()) of a region (553)
RegionCancelAll(w, r) == CancelEach(w, w.reg[r].cancels, DOMAIN w.reg[r].cancels)

\* spaces.forEach(space => space.forEach(remove)) of a region (554-556)
RegionSweep(w, r) == RemoveEach(w, r, Slots(w.reg[r].spaces))

\* cancellations.clear(); spaces.clear() of a region (557-558)
RegionClear(w, r) ==
  IF w.err THEN w
  ELSE [w EXCEPT !.reg[r].cancels = EmptyMap, !.reg[r].spaces = EmptyMap]

\* mountChildStream.unmount (551-559)
RegionUnmount(w, r) ==
  IF w.err THEN w
  ELSE RegionClear(RegionSweep(RegionCancelAll([w EXCEPT !.reg[r].active = FALSE], r), r), r)

\* cancellations.forEach(cancel => cancel()) of a mount (687)
MountCancelAll(w, c) == CancelEach(w, w.ctl[c].cancels, DOMAIN w.ctl[c].cancels)

\* spaces.forEach(space => space.forEach(remove)) of a mount (688-690)
MountSweep(w, c) == MountRemoveEach(w, c, Slots(w.ctl[c].spaces))

\* cancellations.clear(); spaces.clear() of a mount (691-692)
MountClear(w, c) ==
  IF w.err THEN w
  ELSE [w EXCEPT !.ctl[c].cancels = EmptyMap, !.ctl[c].spaces = EmptyMap]

\* an unmount that runs the cancellations and clears the maps but removes
\* no slot of its own
MountUnmount_cancelOnly(w, c) == MountClear(MountCancelAll(w, c), c)

\* mount.unmount (686-693)
MountUnmount(w, c) == MountClear(MountSweep(MountCancelAll(w, c), c), c)

\* ------------------------------------------------------- the reconciler
OwnerSpaces(w, ok, oid) == IF ok = "mount" THEN w.ctl[oid].spaces ELSE w.reg[oid].spaces
OwnerCancels(w, ok, oid) == IF ok = "mount" THEN w.ctl[oid].cancels ELSE w.reg[oid].cancels

\* the insert / remove handed to mountVNodes and remountVNodes: those of a
\* mount (695-701, 466-467) or those of a region (571-572, 579-580)
OwnerInsert(w, ok, oid, n, space, position) ==
  IF ok = "mount" THEN MountInsert(w, oid, n, space, position)
  ELSE RegionInsert(w, oid, n, space, position)

OwnerRemove(w, ok, oid, space, position) ==
  IF ok = "mount" THEN MountRemove(w, oid, space, position)
  ELSE RegionRemove(w, oid, space, position)

\* cancellations.set(vnode, cancel) (366): the map is keyed by the stream
SetCancel(w, ok, oid, sid, rid) ==
  LET c == OwnerCancels(w, ok, oid)
      c1 == [k \in DOMAIN c \cup {sid} |-> IF k = sid THEN rid ELSE c[k]]
  IN IF ok = "mount" THEN [w EXCEPT !.ctl[oid].cancels = c1]
     ELSE [w EXCEPT !.reg[oid].cancels = c1]

ClearCancels(w, ok, oid) ==
  IF ok = "mount" THEN [w EXCEPT !.ctl[oid].cancels = EmptyMap]
  ELSE [w EXCEPT !.reg[oid].cancels = EmptyMap]

\* mountChildStream (472-478, 593-595): a new region subscribed to the
\* stream; mv says whether the _move it was given can be called
mountChildStream(w, rid, sid, ok, oid, index, mv) ==
  [w EXCEPT !.reg = @ @@ (rid :>
     [sid |-> sid, pk |-> ok, pid |-> oid, idx |-> index, mv |-> mv,
      active |-> TRUE, mounted |-> FALSE, prevs |-> <<>>,
      spaces |-> EmptyMap, cancels |-> EmptyMap])]

NewNode(w) == Cardinality(DOMAIN w.ni) + 1
NewRegion(w) == Cardinality(DOMAIN w.reg) + 1

\* createChildNode (239-243), createChildText (224-227) and
\* createChildElement (229-237), whose mount(node, children) is 613-616
\* and 695-701
createChildNode(w, n, vnode, ok, oid) ==
  LET rec == [vnode |-> vnode, text |-> vnode.text, ok |-> ok, oid |-> oid,
              attrs |-> EmptyMap, style |-> EmptyMap, unmounts |-> NoUnmounts,
              bound |-> <<>>] IN
  IF w.err THEN w
  ELSE IF IsVText(vnode) THEN [w EXCEPT !.ni = @ @@ (n :> rec)]
  ELSE IF IsVElement(vnode)
       THEN mountVNodes(
              mountNodeProps(
                [w EXCEPT !.ni = @ @@ (n :> rec),
                          !.dom = @ @@ (n :> <<>>),
                          !.ctl = @ @@ (n :> [spaces |-> EmptyMap, cancels |-> EmptyMap])],
                n, vnode),
              "mount", n, TRUE, Indexed(getSafeVNodes(vnode.children)), 1)
  ELSE Throw(w)

\* pipe(stream, map(getSafeVNodes), listen({ next, fail }, cancel)) (593):
\* a stream that delivers on subscription calls next before
\* mountChildStream returns; w.sync holds the list each such stream
\* delivers
Subscribe(w, rid, sid) ==
  IF sid \in DOMAIN w.sync THEN RegionNext(w, rid, w.sync[sid]) ELSE w

\* the body of the forEach of mountVNodes (357-370)
MountOne(w, ok, oid, mv, vnode, index) ==
  LET w0 == Enter(w, "addition", ok, oid, index, 0, 0, Null) IN
  IF IsStream(vnode)
  THEN LET rid == NewRegion(w)
       IN SetCancel(Subscribe(mountChildStream(w0, rid, vnode.sid, ok, oid, index,
                                               ok = "region" \/ mv),
                              rid, vnode.sid),
                    ok, oid, vnode.sid, rid)
  ELSE LET n == NewNode(w)
       IN OwnerInsert(createChildNode(w0, n, vnode, ok, oid), ok, oid, n, index, 0)

\* mountVNodes (356-371) from the i-th entry on
mountVNodes(w, ok, oid, mv, vnodes, i) ==
  IF i > Len(vnodes) \/ w.err THEN w
  ELSE mountVNodes(MountOne(w, ok, oid, mv, vnodes[i].vnode, vnodes[i].index),
                   ok, oid, mv, vnodes, i + 1)

\* removals.forEach(({ index }) => remove(index, 0)) (391)
RemovalsEach(w, ok, oid, removals, i) ==
  IF i > Len(removals) \/ w.err THEN w
  ELSE RemovalsEach(OwnerRemove(Enter(w, "removal", ok, oid, removals[i].index, 0, 0, Null),
                                ok, oid, removals[i].index, 0),
                    ok, oid, removals, i + 1)

\* a text update that leaves the physical text as it was
TextUpdate_skip(w, child, vnode) ==
  IF child = Null THEN Throw(w) ELSE w

\* the text update of one entry (394-396)
TextUpdate(w, child, vnode) ==
  IF child = Null THEN Throw(w)
  ELSE [w EXCEPT !.ni[child].vnode.text = vnode.text,
                 !.ni[child].text = vnode.text,
                 !.ops = Append(@, Op("text", 0, child, vnode.text))]

\* texts.forEach (393-397)
TextsEach(w, ok, oid, texts, i) ==
  IF i > Len(texts) \/ w.err THEN w
  ELSE TextsEach(TextUpdate(Enter(w, "text", ok, oid, texts[i].index, 0, 0, Null),
                            Get(OwnerSpaces(w, ok, oid), texts[i].index, 0), texts[i].vnode),
                 ok, oid, texts, i + 1)

\* updateVElement (412-470): the props part is 413-445, the children part
\* 452-469, where the move handed to remountVNodes is control.move, which
\* mount does not return
updateVElement(w, child, vnode) ==
  LET attrs == w.ni[child].vnode.attrs
      style == w.ni[child].vnode.style
      events == w.ni[child].vnode.events
      attrsStream == {key \in DOMAIN attrs : attrs[key].stream}
      styleStream == {key \in DOMAIN style : style[key].stream}
      attrsConst == Restrict(attrs, DOMAIN attrs \ attrsStream)
      styleConst == Restrict(style, DOMAIN style \ styleStream)
      w1 == unmountNodeAttrs(w, child, "attrs", attrsStream)
      w2 == unmountNodeStyle(w1, child, styleStream)
      attrsDiff == diffObject(attrsConst, vnode.attrs)
      styleDiff == diffObject(styleConst, vnode.style)
      eventsDiff == diffObject(events, vnode.events)
      w3 == unmountNodeAttrs(w2, child, "attrs", DOMAIN attrsDiff.left)
      w4 == unmountNodeAttrs(w3, child, "style", DOMAIN styleDiff.left)
      w5 == unmountNodeEvents(w4, child, DOMAIN eventsDiff.left)
      w6 == mountNodeAttrs(w5, child, attrsDiff.right, DOMAIN attrsDiff.right)
      w7 == mountNodeStyle(w6, child, styleDiff.right, DOMAIN styleDiff.right)
      w8 == mountNodeEvents(w7, child, eventsDiff.right, DOMAIN eventsDiff.right)
  IN IF w.err THEN w
     ELSE remountVNodes(w8, "mount", child, FALSE,
                        w.ni[child].vnode.children, getSafeVNodes(vnode.children))

\* updateVElement(child, vnode, index) on the child of the slot (400-403):
\* Object.keys(attrs) (423) throws on the record of a text, which has no
\* attrs
ElementUpdate(w, child, vnode) ==
  IF child = Null THEN Throw(w)
  ELSE IF ~IsVElement(w.ni[child].vnode) THEN Throw(w)
  ELSE updateVElement(w, child, vnode)

\* child.vnode = vnode (404)
ElementSwap(w, child, vnode) ==
  IF w.err THEN w ELSE [w EXCEPT !.ni[child].vnode = vnode]

\* elements.forEach (399-405)
ElementsEach(w, ok, oid, elements, i) ==
  IF i > Len(elements) \/ w.err THEN w
  ELSE LET child == Get(OwnerSpaces(w, ok, oid), elements[i].index, 0)
       IN ElementsEach(
            ElementSwap(
              ElementUpdate(Enter(w, "element", ok, oid, elements[i].index, 0, 0, child),
                            child, elements[i].vnode),
              child, elements[i].vnode),
            ok, oid, elements, i + 1)

\* the remountVNodes call of entry i becomes the one running
Begin(w, i) == [w EXCEPT !.cur = i]

\* it returns to the call that was running when it was entered
Return(w, i) == IF w.err THEN w ELSE Begin(Leave(w, i), w.calls[i].of)

\* cancellations.forEach(cancel => cancel()); cancellations.clear()
\* (386-387)
CancelAll(w, ok, oid) ==
  ClearCancels(CancelEach(w, OwnerCancels(w, ok, oid), DOMAIN OwnerCancels(w, ok, oid)),
               ok, oid)

\* a remountVNodes that mounts the additionals first
remountVNodes_addFirst(w, ok, oid, mv, prevs, latests) ==
  IF w.err THEN w
  ELSE LET w0 == Enter(w, "remount", ok, oid, 0, 0, 0, Null)
           i == Len(w0.calls)
           d == diffVNodes(prevs, latests)
       IN Return(
            ElementsEach(
              TextsEach(
                RemovalsEach(
                  CancelEach(mountVNodes(Begin(w0, i), ok, oid, mv, d.additionals, 1),
                             OwnerCancels(w, ok, oid), DOMAIN OwnerCancels(w, ok, oid)),
                  ok, oid, d.removals, 1),
                ok, oid, d.texts, 1),
              ok, oid, d.elements, 1),
            i)

\* remountVNodes (375-409)
remountVNodes(w, ok, oid, mv, prevs, latests) ==
  IF w.err THEN w
  ELSE LET w0 == Enter(w, "remount", ok, oid, 0, 0, 0, Null)
           i == Len(w0.calls)
           d == diffVNodes(prevs, latests)
       IN Return(
            mountVNodes(
              ElementsEach(
                TextsEach(
                  RemovalsEach(CancelAll(Begin(w0, i), ok, oid), ok, oid, d.removals, 1),
                  ok, oid, d.texts, 1),
                ok, oid, d.elements, 1),
              ok, oid, mv, d.additionals, 1),
            i)

\* a fail handler that subscribes to the stream again instead of throwing
RegionFail_retry(w, r) ==
  mountChildStream(w, NewRegion(w), w.reg[r].sid, w.reg[r].pk, w.reg[r].pid,
                   w.reg[r].idx, w.reg[r].mv)

\* mountChildStream.fail (588-590): throw new Error(error)
RegionFail(w, r) == Throw(w)

\* mounted = true; prevs = latests (584-585)
Mounted(w, r, latests) ==
  IF w.err THEN w
  ELSE [w EXCEPT !.reg[r].mounted = TRUE, !.reg[r].prevs = latests]

\* mountChildStream.next (561-586) behind map(getSafeVNodes) (593)
RegionNext(w, r, vnodes) ==
  LET latests == getSafeVNodes(vnodes)
      R == w.reg[r]
  IN Mounted(IF R.mounted THEN remountVNodes(w, "region", r, TRUE, R.prevs, latests)
             ELSE mountVNodes(w, "region", r, TRUE, Indexed(latests), 1),
             r, latests)

\* mount (613-616, 695-703) into the empty container 0, the streams of
\* sync delivering on subscription
RootMountWith(vnodes, sync) ==
  mountVNodes([dom |-> (0 :> <<>>), ni |-> EmptyMap,
               ctl |-> (0 :> [spaces |-> EmptyMap, cancels |-> EmptyMap]),
               reg |-> EmptyMap, ops |-> <<>>, err |-> FALSE, refs |-> EmptyMap,
               calls |-> <<>>, cur |-> 0, sync |-> sync],
              "mount", 0, TRUE, Indexed(getSafeVNodes(vnodes)), 1)

\* mount with streams that deliver only after it returned
RootMount(vnodes) == RootMountWith(vnodes, EmptyMap)

\* -------------------------------------------------------------- scenarios
\* the lists handed to the root mount and the lists each stream may emit
\* "siblings": a static text and two sibling streams of texts at the root
\* "elements": one stream of texts and elements, an element holding a stream
\* "nested":   a stream whose lists hold streams
\* "props":    a stream of one element with attributes, style and handlers
\* "edge":     a stream of nodes with refs and of items that are no nodes
\* "deep":     a stream of a stream of three streams of texts
\* "twice":    a stream whose lists hold one stream at two indices
Scenarios == {"siblings", "elements", "nested", "props", "edge", "deep", "twice"}

\* the values a stream-valued attribute or style property delivers
PropData == {"u", "v"}

RootList(sc) ==
  IF sc = "siblings" THEN <<S(1), S(2)>>
  ELSE IF sc = "elements" THEN <<T("s"), S(1)>>
  ELSE IF sc = "nested" THEN <<S(3)>>
  ELSE IF sc = "deep" THEN <<S(5)>>
  ELSE IF sc = "twice" THEN <<S(3)>>
  ELSE <<S(1)>>

Emits(sc, sid) ==
  IF sc = "edge"
  THEN {<<ER("p", "r1", <<>>)>>, <<ER("p", "r2", <<T("b")>>)>>, <<TR("a", "r3")>>,
        <<TR("b", "r4"), Bool("true"), Obj>>, <<>>}
  ELSE IF sc = "props"
  THEN {<<EP("p", Attrs("id" :> Const("a")), <<T("b")>>)>>,
        <<EP("p", Attrs("id" :> Const("c") @@ "title" :> Const("t")), <<T("b")>>)>>,
        <<EP("p", [NoProps EXCEPT !.style = ("color" :> Const("red"))], <<>>)>>,
        <<EP("p", [NoProps EXCEPT !.events = ("click" :> Const("f"))], <<>>)>>,
        <<EP("p", [NoProps EXCEPT !.attrs = ("id" :> Strm("ids")),
                                  !.style = ("color" :> Strm("colors"))], <<>>)>>,
        <<T("b")>>}
  ELSE IF sc = "siblings"
  THEN IF sid = 1
       THEN {<<>>, <<T("1")>>, <<T("1"), T("2")>>, <<T("1"), T("2"), T("3")>>,
             <<T("1"), T("3")>>, <<T("2"), T("1")>>}
       ELSE {<<>>, <<T("c")>>, <<T("c"), T("e")>>}
  ELSE IF sc = "elements"
  THEN IF sid = 1
       THEN {<<T("a"), E("p", <<T("b")>>)>>, <<T("a"), E("div", <<T("b")>>)>>,
             <<T("a"), E("p", <<S(2)>>)>>, <<T("a"), E("p", <<T("c"), S(2)>>)>>,
             <<T("a")>>, <<E("p", <<>>), T("a")>>,
             <<T("a"), E("p", <<T("d"), S(2)>>)>>}
       ELSE {<<>>, <<T("x")>>, <<T("x"), T("y")>>}
  ELSE IF sc = "deep"
  THEN IF sid = 5 THEN {<<S(3)>>}
       ELSE IF sid = 3 THEN {<<S(1), S(4), S(2)>>}
       ELSE IF sid = 1 THEN {<<T("a")>>, <<T("a"), T("b")>>}
       ELSE IF sid = 2 THEN {<<T("x")>>, <<>>}
       ELSE {<<T("z")>>}
  ELSE IF sc = "twice"
  THEN IF sid = 3
       THEN {<<S(1), S(1)>>, <<E("p", <<S(1), S(1)>>)>>, <<>>}
       ELSE {<<T("a")>>, <<>>}
  ELSE IF sid = 3
       THEN {<<S(1), T("c"), S(2)>>, <<S(1), S(4), S(2)>>, <<S(1), S(2)>>,
             <<T("c"), S(1)>>}
       ELSE IF sid = 1 THEN {<<T("a")>>, <<T("a"), T("b")>>, <<>>}
       ELSE IF sid = 2 THEN {<<T("x")>>, <<E("p", <<>>)>>, <<T("y")>>, <<>>}
       ELSE {<<T("z")>>}

\* the streams that may deliver null instead of a list
Nulls(sc, sid) == (sc = "nested" /\ sid = 2) \/ (sc = "siblings" /\ sid = 1)

\* the streams that may signal failure
Fails(sc, sid) == sc = "edge" /\ sid = 1

\* ------------------------------------------------------------ the actions
NoLast == [kind |-> "mount", r |-> 0, sid |-> 0, list |-> <<>>, mounted |-> FALSE,
           prevs |-> <<>>, array |-> TRUE]

Init ==
  /\ scen \in Scenarios
  /\ world = RootMount(RootList(scen))
  /\ before = world
  /\ last = NoLast
  /\ emits = 0

Fresh(w) == [w EXCEPT !.ops = <<>>, !.err = FALSE, !.calls = <<>>, !.cur = 0]

\* a subscribed stream delivers a list to the next handler of region r
Emit(r, list) ==
  /\ emits < MaxEmits
  /\ world.reg[r].active
  /\ world' = RegionNext(Fresh(world), r, list)
  /\ before' = Fresh(world)
  /\ last' = [kind |-> "emit", r |-> r, sid |-> world.reg[r].sid, list |-> list,
              mounted |-> world.reg[r].mounted, prevs |-> world.reg[r].prevs,
              array |-> TRUE]
  /\ emits' = emits + 1
  /\ UNCHANGED scen

\* a subscribed stream delivers null to the next handler of region r:
\* getSafeVNodes (321) puts a value that is no array into an array of one
EmitNull(r) ==
  /\ emits < MaxEmits
  /\ world.reg[r].active
  /\ Nulls(scen, world.reg[r].sid)
  /\ world' = RegionNext(Fresh(world), r, <<Nil>>)
  /\ before' = Fresh(world)
  /\ last' = [kind |-> "emit", r |-> r, sid |-> world.reg[r].sid, list |-> <<Nil>>,
              mounted |-> world.reg[r].mounted, prevs |-> world.reg[r].prevs,
              array |-> FALSE]
  /\ emits' = emits + 1
  /\ UNCHANGED scen

\* the stream of region r signals failure to the fail handler (593)
Fail(r) ==
  /\ emits < MaxEmits
  /\ world.reg[r].active
  /\ Fails(scen, world.reg[r].sid)
  /\ world' = RegionFail(Fresh(world), r)
  /\ before' = Fresh(world)
  /\ last' = [NoLast EXCEPT !.kind = "fail", !.r = r, !.sid = world.reg[r].sid]
  /\ emits' = emits + 1
  /\ UNCHANGED scen

\* the root mount tracks a stream until its unmount clears the registry
RootMounted == DOMAIN world.ctl[0].cancels # {}

\* the caller runs the unmount returned by the root mount
Unmount ==
  /\ RootMounted
  /\ world' = MountUnmount(Fresh(world), 0)
  /\ before' = Fresh(world)
  /\ last' = [NoLast EXCEPT !.kind = "unmount"]
  /\ UNCHANGED <<emits, scen>>

\* a subscribed stream-valued attribute or style property of element n
\* delivers data: the listener of mountNodeAttrs (142-146) or of
\* mountNodeStyle (157-161) behind distinct() (50-63)
PropNext(n, which, key, data) ==
  /\ emits < MaxEmits
  /\ key \in DOMAIN world.ni[n].unmounts[which]
  /\ world.ni[n].unmounts[which][key].seen # data
  /\ world' = [Fresh(world) EXCEPT
                 !.ni[n][which] = (key :> data) @@ @,
                 !.ni[n].unmounts[which][key].seen = data,
                 !.ops = <<Op(IF which = "attrs" THEN "setAttribute" ELSE "setStyle",
                              0, n, key)>>]
  /\ before' = Fresh(world)
  /\ last' = [NoLast EXCEPT !.kind = "prop"]
  /\ emits' = emits + 1
  /\ UNCHANGED scen

Next ==
  \/ \E r \in DOMAIN world.reg : \E list \in Emits(scen, world.reg[r].sid) : Emit(r, list)
  \/ \E r \in DOMAIN world.reg : EmitNull(r)
  \/ \E r \in DOMAIN world.reg : Fail(r)
  \/ \E n \in DOMAIN world.ni : \E which \in {"attrs", "style"} :
       \E key \in {"id", "color"} : \E data \in PropData : PropNext(n, which, key, data)
  \/ Unmount

Spec == Init /\ [][Next]_vars

\* ------------------------------------------------------------ rendering
\* what container c shows: its physical children in order, each as the
\* text it holds or the tag it has with what it shows in turn
RECURSIVE Render(_, _)
Render(w, c) ==
  [i \in 1..Len(w.dom[c]) |->
     LET n == w.dom[c][i] IN
     IF IsVText(w.ni[n].vnode) THEN T(w.ni[n].text)
     ELSE E(w.ni[n].vnode.name, Render(w, n))]

\* the region now subscribed for the stream item at a logical index of an
\* owner, or Null
LiveRegion(w, ok, oid, index) ==
  LET rs == {r \in DOMAIN w.reg : /\ w.reg[r].active /\ w.reg[r].pk = ok
                                  /\ w.reg[r].pid = oid /\ w.reg[r].idx = index}
  IN IF rs = {} THEN Null ELSE SetMax(rs)

\* the declaration-order, depth-first flattening of a list owned by a mount
\* or a region: static items as they are, each stream item replaced by the
\* flattening of the latest list of its live region
RECURSIVE Expect(_, _, _, _, _)
Expect(w, ok, oid, vnodes, i) ==
  IF i > Len(vnodes) THEN <<>>
  ELSE LET v == vnodes[i]
           n == Get(OwnerSpaces(w, ok, oid), i - 1, 0)
           r == LiveRegion(w, ok, oid, i - 1)
           here == IF IsVText(v) THEN <<v>>
                   ELSE IF IsVElement(v)
                   THEN <<E(v.name, IF n = Null \/ n \notin DOMAIN w.ctl THEN <<>>
                                    ELSE Expect(w, "mount", n, getSafeVNodes(v.children), 1))>>
                   ELSE IF r = Null THEN <<>>
                   ELSE Expect(w, "region", r, w.reg[r].prevs, 1)
       IN here \o Expect(w, ok, oid, vnodes, i + 1)

\* ----------------------------------------------------- reading a world
\* the container whose child list holds node n, or None
ContainerOf(w, n) ==
  IF \E d \in DOMAIN w.dom : InSeq(w.dom[d], n)
  THEN CHOOSE d \in DOMAIN w.dom : InSeq(w.dom[d], n) ELSE None

Attached(w, n) == ContainerOf(w, n) # None

\* the physical index of an attached node among its siblings
PhysIndex(w, n) == IndexOf(w.dom[ContainerOf(w, n)], n)

\* the records a map of spaces holds
Occupants(spaces) ==
  {spaces[k[1]][k[2]] : k \in {x \in Slots(spaces) : spaces[x[1]][x[2]] # Null}}

\* the physical nodes a region has mounted and not removed
RegionNodes(w, r) == Occupants(w.reg[r].spaces)

\* the owner (a region or a mount) is region r or lies beneath it: a region
\* beneath its parent, the mount of an element beneath who created it
RECURSIVE Beneath(_, _, _, _)
Beneath(w, ok, oid, r) ==
  IF ok = "region" THEN oid = r \/ Beneath(w, w.reg[oid].pk, w.reg[oid].pid, r)
  ELSE IF oid = 0 THEN FALSE
  ELSE Beneath(w, w.ni[oid].ok, w.ni[oid].oid, r)

\* no stream in a list, at any depth
RECURSIVE StreamFree(_)
StreamFree(vnodes) ==
  \A i \in 1..Len(vnodes) :
    /\ ~IsStream(vnodes[i])
    /\ \A key \in DOMAIN vnodes[i].attrs : ~vnodes[i].attrs[key].stream
    /\ \A key \in DOMAIN vnodes[i].style : ~vnodes[i].style[key].stream
    /\ StreamFree(getSafeVNodes(vnodes[i].children))

\* the handler that ran last: next of region last.r, given its second or
\* a later list, and it returned
Emitted == last.kind = "emit" /\ ~world.err
Reconciled == Emitted /\ last.mounted
Latests == getSafeVNodes(last.list)
OpsOn(n) == {i \in 1..Len(world.ops) : world.ops[i].node = n}
Min(a, b) == IF a < b THEN a ELSE b

\* no stream among the items of a list (its elements may hold streams)
StaticItems(vnodes) == \A i \in 1..Len(vnodes) : ~IsStream(vnodes[i])

\* the list an owner mounted: the latest list of a region, the list given
\* to the root mount, the children of the element a mount belongs to
OwnerList(w, ok, oid) ==
  IF ok = "region" THEN w.reg[oid].prevs
  ELSE IF oid = 0 THEN getSafeVNodes(RootList(scen))
  ELSE getSafeVNodes(w.ni[oid].vnode.children)

\* two subscribed regions of one owner, the first declared before the
\* second: each the region of the stream item now at its index, not a
\* subscription that an earlier list left behind
Siblings(w, r0, r1) ==
  /\ w.reg[r0].active /\ w.reg[r1].active
  /\ w.reg[r0].pk = w.reg[r1].pk /\ w.reg[r0].pid = w.reg[r1].pid
  /\ w.reg[r0].idx < w.reg[r1].idx
  /\ LiveRegion(w, w.reg[r0].pk, w.reg[r0].pid, w.reg[r0].idx) = r0
  /\ LiveRegion(w, w.reg[r1].pk, w.reg[r1].pid, w.reg[r1].idx) = r1

\* ----------------------------------------------------------------- claims
\* C1: after any sequence of emissions, once the handlers have returned,
\* the physical children of the root container are exactly the
\* declaration-order, depth-first flattening of the static items and of
\* the latest list of every live dynamic region.
C1_ChildrenAreTheFlattening ==
  (RootMounted /\ ~world.err) =>
    Render(world, 0) = Expect(world, "mount", 0, getSafeVNodes(RootList(scen)), 1)

NoThrow == (last.kind # "fail") => ~world.err

\* C3 (as claimed): once a region is cancelled, every subscription beneath
\* it -- the streams of its list and the streams inside the elements it
\* mounted -- is cancelled too, so none of them can issue an operation.
C3_CancelIsRecursive ==
  \A r \in DOMAIN world.reg : \A q \in DOMAIN world.reg :
    (~world.reg[r].active /\ Beneath(world, world.reg[q].pk, world.reg[q].pid, r))
      => ~world.reg[q].active

\* C4 (as claimed): when a mounted element is removed or replaced, every
\* dynamic-region subscription of its child region is cancelled.
C4_RemovedElementCancelsItsRegion ==
  \A c \in DOMAIN world.ctl \ {0} :
    ~Attached(world, c) =>
      \A q \in DOMAIN world.reg :
        (world.reg[q].pk = "mount" /\ world.reg[q].pid = c) => ~world.reg[q].active

C8_ReplaceInPlace ==
  Reconciled =>
    \A i \in 1..Min(Len(last.prevs), Len(Latests)) :
      (/\ StaticItems(last.prevs) /\ StaticItems(Latests)
       /\ diffVNode(last.prevs[i], Latests[i]) = "replace")
      => LET old == Get(before.reg[last.r].spaces, i - 1, 0)
             new == Get(world.reg[last.r].spaces, i - 1, 0)
         IN /\ old # Null /\ new # Null /\ new \notin DOMAIN before.ni
            /\ ~Attached(world, old) /\ Attached(world, new)
            /\ ContainerOf(world, new) = ContainerOf(before, old)
            /\ PhysIndex(world, new) = PhysIndex(before, old)
            /\ \A j \in 1..Min(Len(last.prevs), Len(Latests)) :
                 diffVNode(last.prevs[j], Latests[j]) # "replace"
                 => /\ Get(world.reg[last.r].spaces, j - 1, 0)
                         = Get(before.reg[last.r].spaces, j - 1, 0)
                    /\ \A k \in OpsOn(Get(before.reg[last.r].spaces, j - 1, 0)) :
                         world.ops[k].op = "text"

\* the indices diffVNodes classifies as text updates
TextIndices(prevs, latests) ==
  LET texts == diffVNodes(prevs, latests).texts
  IN {texts[k].index : k \in 1..Len(texts)}

\* C9: the indices classified text-update are exactly those below both
\* lengths where both sides are texts with different payloads, and after
\* reconcile the same physical node is mounted there, showing the new text.
C9_TextUpdates ==
  Reconciled =>
    /\ TextIndices(last.prevs, Latests)
         = {i \in 0..(Min(Len(last.prevs), Len(Latests)) - 1) :
              /\ IsVText(last.prevs[i + 1]) /\ IsVText(Latests[i + 1])
              /\ last.prevs[i + 1].text # Latests[i + 1].text}
    /\ \A i \in TextIndices(last.prevs, Latests) :
         LET n == Get(before.reg[last.r].spaces, i, 0)
         IN /\ n # Null /\ Get(world.reg[last.r].spaces, i, 0) = n
            /\ Attached(world, n) /\ PhysIndex(world, n) = PhysIndex(before, n)
            /\ world.ni[n].text = Latests[i + 1].text

\* the one index where two lists of the same length differ by a replace
OnlyReplaceAt(prevs, latests, i) ==
  /\ Len(prevs) = Len(latests) /\ i \in 1..Len(prevs)
  /\ StaticItems(prevs) /\ StaticItems(latests)
  /\ \A j \in 1..Len(prevs) :
       DiffAt(prevs, latests, j - 1) = (IF j = i THEN "replace" ELSE "none")

\* C10 (as claimed): removing the item of a slot and re-inserting one at
\* the same slot at once puts the new node at the physical index the old
\* one had and leaves every other node at its index.
C10_RemoveThenInsertRestores ==
  Reconciled =>
    \A i \in 1..Len(Latests) :
      OnlyReplaceAt(last.prevs, Latests, i)
      => LET old == Get(before.reg[last.r].spaces, i - 1, 0)
             new == Get(world.reg[last.r].spaces, i - 1, 0)
             c == ContainerOf(before, old)
         IN /\ old # Null /\ new # Null /\ c # None
            /\ Len(world.dom[c]) = Len(before.dom[c])
            /\ \A k \in 1..Len(before.dom[c]) :
                 world.dom[c][k] = (IF before.dom[c][k] = old THEN new ELSE before.dom[c][k])

\* ---------------------------------------------------------------- C2
\* C2 (as claimed): reconcile over a list and an identical list issues no
\* physical operation at all.
C2_IdenticalListsNoOps ==
  (Reconciled /\ Latests = last.prevs) => world.ops = <<>>

\* C2 (amended): reconcile over a list and an identical list that holds no
\* stream, neither as an item at any depth nor as the value of an attribute
\* or of a style property, issues no physical operation at all.
C2_IdenticalStaticListsNoOps ==
  (Reconciled /\ Latests = last.prevs /\ StreamFree(Latests))
  => /\ world.ops = <<>>
     /\ world.dom = before.dom
     /\ world.ni = before.ni

C2_Witness ==
  /\ Reconciled /\ Latests = last.prevs /\ StreamFree(Latests)
  /\ \E i \in 1..Len(Latests) :
       /\ IsVElement(Latests[i])
       /\ DOMAIN Latests[i].attrs # {}
       /\ Latests[i].children # <<>>

\* ---------------------------------------------------------------- C7
\* latests is prevs without its j-th item, which is neither first nor last
DropsMiddle(prevs, latests, j) ==
  /\ j \in 2..(Len(prevs) - 1)
  /\ latests = SubSeq(prevs, 1, j - 1) \o SubSeq(prevs, j + 1, Len(prevs))

\* every slot of a region's map is position 0 of its space
Flat(spaces) == \A space \in DOMAIN spaces : DOMAIN spaces[space] \subseteq {0}

AllTexts(vnodes) == \A i \in 1..Len(vnodes) : IsVText(vnodes[i])

C9_Witness ==
  /\ Reconciled
  /\ Cardinality(TextIndices(last.prevs, Latests)) >= 2

\* --------------------------------------------------------------- C11
\* the handler that ran last was given null by its stream
EmittedNull == Emitted /\ ~last.array /\ last.list = <<Nil>>

\* C11: when the stream of a region that has mounted items delivers null,
\* every physical node the region had mounted is detached, the region
\* holds no node any more, and the sibling regions keep their nodes
\* attached in the order they had.
C11_NullEmptiesTheRegion ==
  (EmittedNull /\ last.mounted) =>
    /\ \A n \in RegionNodes(before, last.r) : ~Attached(world, n)
    /\ RegionNodes(world, last.r) = {}
    /\ \A q \in DOMAIN before.reg :
         (Siblings(before, last.r, q) \/ Siblings(before, q, last.r))
         => /\ RegionNodes(world, q) = RegionNodes(before, q)
            /\ \A n \in RegionNodes(before, q) : Attached(world, n)
            /\ \A n, m \in RegionNodes(before, q) :
                 (Attached(before, n) /\ Attached(before, m)
                  /\ PhysIndex(before, n) < PhysIndex(before, m))
                 => PhysIndex(world, n) < PhysIndex(world, m)

\* --------------------------------------------------------------- C12
\* C12: after the unmount of the root mount, whatever was emitted before,
\* the call has returned, the target container holds no node, every region
\* the root tracked is cancelled, and the root's slot map and registry of
\* cancellations are empty.
C12_UnmountClearsTheRoot ==
  (last.kind = "unmount") =>
    /\ ~world.err
    /\ world.dom[0] = <<>>
    /\ \A sid \in DOMAIN before.ctl[0].cancels :
         ~world.reg[before.ctl[0].cancels[sid]].active
    /\ world.ctl[0].spaces = EmptyMap
    /\ world.ctl[0].cancels = EmptyMap

C12_Witness ==
  /\ last.kind = "unmount"
  /\ Len(before.dom[0]) >= 3
  /\ \E n \in Occupants(before.ctl[0].spaces) : before.ni[n].ok = "mount"
  /\ \E n \in Occupants(before.ctl[0].spaces) : before.ni[n].ok = "region"

\* --------------------------------------------------------------- C13
\* C13: a handle is told of the detach of a node only after it was told of
\* the attach of that node, also where the node was patched in place by an
\* element update or a node is mounted for the handle a second time.
C13_NoDetachBeforeAttach ==
  ~world.err =>
    \A ref \in DOMAIN world.refs : \A i \in 1..Len(world.refs[ref]) :
      ~world.refs[ref][i].mounted
      => \E j \in 1..(i - 1) :
           world.refs[ref][j] = [node |-> world.refs[ref][i].node, mounted |-> TRUE]

\* --------------------------------------------------------------- C14
\* C14: when the stream of a region signals failure, the handler throws,
\* no subscription is made (there are the regions there were, each as it
\* was) and no physical operation is issued: containers, nodes, slot maps
\* and handles are as before.
C14_FailureThrowsAndDoesNothing ==
  (last.kind = "fail") =>
    /\ world.err
    /\ world.ops = <<>>
    /\ world.reg = before.reg
    /\ world.dom = before.dom /\ world.ni = before.ni
    /\ world.ctl = before.ctl /\ world.refs = before.refs

C14_Witness ==
  /\ last.kind = "fail"
  /\ before.reg[last.r].mounted
  /\ RegionNodes(before, last.r) # {}

\* --------------------------------------------------------------- C15
\* the items a list may hold: nodes, streams, strings/numbers and null
Recognized(v) == v.kind \in {"text", "elem", "stream", "raw", "null"}

\* C15: an emitted list holding an item that is none of these (a boolean,
\* a plain object) makes the reconcile call raise an error before any
\* physical node is created for it: no node exists that did not before.
C15_UnknownItemRaises ==
  (Emitted /\ \E i \in 1..Len(last.list) : ~Recognized(last.list[i])) =>
    /\ world.err
    /\ DOMAIN world.ni = DOMAIN before.ni

\* --------------------------------------------------------------- C16
\* the record the enclosing region holds for slot (space, position) of
\* region r: in the region's own space, at the external position
HeldOutside(w, r, space, position) ==
  Get(OwnerSpaces(w, w.reg[r].pk, w.reg[r].pid), w.reg[r].idx,
      getExternalPosition(w.reg[r].spaces, space, position))

\* C16: once a handler has returned, every occupied slot (S, P) of every
\* region is held by the enclosing mount or region, in the region's own
\* space, at exactly getExternalPosition(S, P).
C16_OccupiedSlotIsHeldOutside ==
  ~world.err =>
    \A r \in DOMAIN world.reg :
      \A k \in Slots(world.reg[r].spaces) :
        Get(world.reg[r].spaces, k[1], k[2]) # Null =>
          HeldOutside(world, r, k[1], k[2]) = Get(world.reg[r].spaces, k[1], k[2])

\* --------------------------------------------------------------- C17
\* the spaces and positions the external index is asked for
MaxSpace == 3
MaxPosition == 3

\* the greatest position key of a space, a tombstone's key included, and
\* the greatest key that holds a record; 0 when there is none
TopKey(positions) ==
  IF DOMAIN positions = {} THEN 0
  ELSE CHOOSE p \in DOMAIN positions : \A q \in DOMAIN positions : q <= p

TopOccupiedKey(positions) ==
  LET held == {p \in DOMAIN positions : positions[p] # Null}
  IN IF held = {} THEN 0 ELSE CHOOSE p \in held : \A q \in held : q <= p

\* the sum over the spaces strictly before S of top + (1 if the space is
\* not space 0), counted as a set of (space, unit) pairs; top is the
\* greatest occupied key when held, the greatest key otherwise
WidthBefore(spaces, space, held) ==
  Cardinality(UNION {{<<k, j>> : j \in 1..((IF held THEN TopOccupiedKey(spaces[k])
                                                   ELSE TopKey(spaces[k]))
                                            + (IF k # 0 THEN 1 ELSE 0))} :
                       k \in {x \in DOMAIN spaces : x < space}})

\* C17 (as written): the external index is (1 if S is not 0) + the sum
\* over every space before S of its greatest occupied position key, plus
\* 1 if that space is not space 0, + P.
C17_ExternalIndexByOccupiedKeys ==
  \A r \in DOMAIN world.reg : \A space \in 0..MaxSpace : \A position \in 0..MaxPosition :
    getExternalPosition(world.reg[r].spaces, space, position)
      = (IF space # 0 THEN 1 ELSE 0) + WidthBefore(world.reg[r].spaces, space, TRUE) + position

\* C17 (amended): the same with the greatest position key of each space
\* before S, whether that key holds a record or a tombstone.
C17_ExternalIndexByKeys ==
  \A r \in DOMAIN world.reg : \A space \in 0..MaxSpace : \A position \in 0..MaxPosition :
    getExternalPosition(world.reg[r].spaces, space, position)
      = (IF space # 0 THEN 1 ELSE 0) + WidthBefore(world.reg[r].spaces, space, FALSE) + position

\* a region with a space whose greatest key is a tombstone above a record,
\* and a record in a later space
C17_Witness ==
  \E r \in DOMAIN world.reg :
    LET sp == world.reg[r].spaces IN
    \E a \in DOMAIN sp, b \in DOMAIN sp :
      /\ a < b
      /\ \E p \in DOMAIN sp[a] : sp[a][p] # Null
      /\ TopOccupiedKey(sp[a]) < TopKey(sp[a])
      /\ \E p \in DOMAIN sp[b] : sp[b][p] # Null

\* --------------------------------------------------------- C18, C19
\* the entries of the calls made within the call of entry i, which has
\* returned
Within(w, i) == (i + 1)..w.calls[i].end

\* the occupied slots of a map of spaces
Occupied(spaces) == {k \in Slots(spaces) : spaces[k[1]][k[2]] # Null}

\* entry j is a call of the given kind on the mount or region enclosing
\* region r, in the space of r
Outward(w, j, call, r) ==
  /\ w.calls[j].call = call
  /\ w.calls[j].ok = w.reg[r].pk
  /\ w.calls[j].id = w.reg[r].pid
  /\ w.calls[j].space = w.reg[r].idx

\* an insert of a mount or a region at an occupied slot
InsertAtOccupied(w, i) ==
  /\ w.calls[i].call = "insert"
  /\ Get(w.calls[i].pre, w.calls[i].space, w.calls[i].position) # Null

\* C18: an insert at an occupied (space, position) returns; it shifts every key of
\* that space at or after the position right by one, keeps the keys before
\* it and the other spaces, and stores the new record at the position; a
\* region calls the move of its enclosing region for the external position
\* of the slot, by one, before it calls the enclosing insert.
C18_InsertAtOccupiedShiftsRight ==
  \A i \in 1..Len(world.calls) :
    InsertAtOccupied(world, i) =>
      LET e == world.calls[i]
          from == e.pre[e.space]
          to == e.post[e.space]
      IN /\ e.end # 0
         /\ DOMAIN e.post = DOMAIN e.pre
         /\ \A s \in DOMAIN e.pre \ {e.space} : e.post[s] = e.pre[s]
         /\ DOMAIN to = {k \in DOMAIN from : k < e.position} \cup {e.position}
                          \cup {k + 1 : k \in {x \in DOMAIN from : x >= e.position}}
         /\ \A k \in DOMAIN from : to[IF k < e.position THEN k ELSE k + 1] = from[k]
         /\ to[e.position] = e.node
         /\ (e.ok = "region") =>
              \E a \in Within(world, i) : \E b \in Within(world, i) :
                /\ a < b
                /\ Outward(world, a, "move", e.id)
                /\ world.calls[a].position = getExternalPosition(e.pre, e.space, e.position)
                /\ world.calls[a].length = 1
                /\ Outward(world, b, "insert", e.id)
                /\ world.calls[b].node = e.node
                /\ \A j \in Within(world, i) : Outward(world, j, "insert", e.id) => j = b

\* a region has inserted at an occupied slot with a record before it
C18_Witness ==
  /\ ~world.err
  /\ \E i \in 1..Len(world.calls) :
       /\ InsertAtOccupied(world, i)
       /\ world.calls[i].ok = "region"
       /\ \E k \in DOMAIN world.calls[i].pre[world.calls[i].space] :
            /\ k < world.calls[i].position
            /\ world.calls[i].pre[world.calls[i].space][k] # Null

\* a remove of a region
RegionRemoved(w, i) ==
  /\ w.calls[i].call = "remove"
  /\ w.calls[i].ok = "region"

\* C19: a remove(S, P) of a region returns; on an occupied slot it calls the remove of
\* the enclosing region once, first thing, at the external index of the
\* slot in the map it found, and leaves key P of space S as a tombstone, so
\* every other occupied slot keeps its record and its external index; on a
\* slot that holds no record it makes no call and leaves the map as it is.
C19_RemoveIsOneRemovalAndATombstone ==
  \A i \in 1..Len(world.calls) :
    RegionRemoved(world, i) =>
      LET e == world.calls[i]
          out == {j \in Within(world, i) : Outward(world, j, "remove", e.id)}
      IN IF e.end = 0 THEN FALSE
         ELSE IF Get(e.pre, e.space, e.position) # Null
         THEN /\ out = {i + 1}
              /\ world.calls[i + 1].position
                   = getExternalPosition(e.pre, e.space, e.position)
              /\ DOMAIN e.post = DOMAIN e.pre
              /\ \A s \in DOMAIN e.pre : DOMAIN e.post[s] = DOMAIN e.pre[s]
              /\ e.post[e.space][e.position] = Null
              /\ \A k \in Occupied(e.pre) \ {<<e.space, e.position>>} :
                   /\ e.post[k[1]][k[2]] = e.pre[k[1]][k[2]]
                   /\ getExternalPosition(e.post, k[1], k[2])
                        = getExternalPosition(e.pre, k[1], k[2])
         ELSE e.end = i /\ e.post = e.pre

\* a region has removed the record of its greatest key in a space before
\* another occupied space, and a remove has found a tombstone
C19_Witness ==
  /\ ~world.err
  /\ \E i \in 1..Len(world.calls) :
       LET e == world.calls[i] IN
       /\ RegionRemoved(world, i)
       /\ Get(e.pre, e.space, e.position) # Null
       /\ e.position = TopKey(e.pre[e.space])
       /\ \E k \in Occupied(e.pre) : k[1] > e.space
  /\ \E i \in 1..Len(world.calls) :
       LET e == world.calls[i] IN
       /\ RegionRemoved(world, i)
       /\ e.space \in DOMAIN e.pre
       /\ e.position \in DOMAIN e.pre[e.space]
       /\ e.pre[e.space][e.position] = Null

\* --------------------------------------------------------------- C20
\* the steps of the remountVNodes call of entry i at its own level: the
\* cancellations it invokes (386), its removals (391), text updates
\* (393-397), element recursions (399-405) and additions (408)
Steps(w, i) ==
  {j \in 1..Len(w.calls) :
     /\ w.calls[j].of = i
     /\ w.calls[j].ok = w.calls[i].ok /\ w.calls[j].id = w.calls[i].id
     /\ w.calls[j].call \in {"cancel", "removal", "text", "element", "addition"}}

StepsOf(w, i, call) == {j \in Steps(w, i) : w.calls[j].call = call}

\* the place of a step in the flow of remountVNodes
Rank(call) ==
  IF call = "cancel" THEN 0
  ELSE IF call = "removal" THEN 1
  ELSE IF call = "addition" THEN 3
  ELSE 2

\* C20: within one remountVNodes call every cancellation of a region
\* tracked at its level comes before every removal, every removal before
\* every text update and element recursion, and all of these before the
\* first addition; no insert of any mount or region is called between the
\* start of the call and its last removal.
C20_CancelRemoveUpdateAdd ==
  \A i \in 1..Len(world.calls) :
    (world.calls[i].call = "remount") =>
      /\ \A a \in Steps(world, i) : \A b \in Steps(world, i) :
           (a < b) => Rank(world.calls[a].call) <= Rank(world.calls[b].call)
      /\ \A b \in StepsOf(world, i, "removal") :
           \A j \in (i + 1)..b : world.calls[j].call # "insert"

C20_Witness ==
  /\ ~world.err
  /\ \E i \in 1..Len(world.calls) :
       /\ world.calls[i].call = "remount"
       /\ StepsOf(world, i, "cancel") # {}
       /\ StepsOf(world, i, "removal") # {}
       /\ StepsOf(world, i, "text") \cup StepsOf(world, i, "element") # {}
       /\ StepsOf(world, i, "addition") # {}

\* --------------------------------------------------------------- C21
\* diffVNodes on its own: under SpecDiff, last holds a previous and a
\* latest list drawn from the lists of at most MaxLen of DiffItems, and
\* world holds what diffVNodes makes of them once it has been applied
MaxLen == 3

DiffItems == {T("a"), T("b"), E("p", <<>>), E("div", <<>>), S(1)}

DiffLists == UNION {[1..k -> DiffItems] : k \in 0..MaxLen}

NoDiff == [additionals |-> <<>>, removals |-> <<>>, elements |-> <<>>, texts |-> <<>>]

DiffInit ==
  /\ scen = "diff"
  /\ emits = 0
  /\ \E prevs \in DiffLists : \E latests \in DiffLists :
       last = [kind |-> "diff", prevs |-> getSafeVNodes(prevs), list |-> getSafeVNodes(latests)]
  /\ world = NoDiff
  /\ before = NoDiff

DiffApply ==
  /\ emits = 0
  /\ world' = diffVNodes(last.prevs, last.list)
  /\ emits' = 1
  /\ UNCHANGED <<before, last, scen>>

DiffNext == DiffApply

SpecDiff == DiffInit /\ [][DiffNext]_vars

\* the reference classification of the 1-based place i of two lists: the
\* lists of the diff that hold an entry for it
Classes(prevs, latests, i) ==
  IF i > Len(prevs) THEN {"additionals"}
  ELSE IF i > Len(latests) THEN {"removals"}
  ELSE IF latests[i].kind = "stream" THEN {"removals", "additionals"}
  ELSE IF prevs[i].kind = "stream" THEN {"additionals"}
  ELSE IF prevs[i].kind # latests[i].kind THEN {"removals", "additionals"}
  ELSE IF prevs[i].kind = "elem"
       THEN IF prevs[i].name # latests[i].name THEN {"removals", "additionals"}
            ELSE {"elements"}
  ELSE IF prevs[i].text = latests[i].text THEN {} ELSE {"texts"}

\* a list of the diff holds one entry for each place classified into it
\* and no other: the entry of a removal carries the previous item, every
\* other entry the latest item
Agrees(entries, class, prevs, latests) ==
  LET places == {i \in 1..(IF Len(prevs) > Len(latests) THEN Len(prevs) ELSE Len(latests)) :
                   class \in Classes(prevs, latests, i)}
  IN /\ Len(entries) = Cardinality(places)
     /\ \A i \in places : \E j \in 1..Len(entries) :
          /\ entries[j].index = i - 1
          /\ entries[j].vnode = (IF class = "removals" THEN prevs[i] ELSE latests[i])

\* C21: for all normalized previous and latest lists, the four lists
\* diffVNodes returns are those of the reference classification.
C21_DiffAgreesWithReference ==
  (emits = 1) =>
    /\ Agrees(world.additionals, "additionals", last.prevs, last.list)
    /\ Agrees(world.removals, "removals", last.prevs, last.list)
    /\ Agrees(world.elements, "elements", last.prevs, last.list)
    /\ Agrees(world.texts, "texts", last.prevs, last.list)

\* a stream follows a stream, an element is kept, and the previous list
\* is the longer one
C21_Witness ==
  /\ emits = 1
  /\ Len(last.prevs) > Len(last.list)
  /\ world.elements # <<>>
  /\ \E i \in 1..Len(last.list) :
       last.prevs[i].kind = "stream" /\ last.list[i].kind = "stream"

\* --------------------------------------------------------------- C22
\* the elements the last handler has patched in place (399-405)
Patched == {world.calls[i].node : i \in {j \in 1..Len(world.calls) :
                                          world.calls[j].call = "element"}}

\* the constant entries of an attrs or style map, as key -> value
Constants(obj) == [key \in {k \in DOMAIN obj : ~obj[k].stream} |-> obj[key].v]

\* C22: once a handler has patched an element in place, the attributes
\* and the style properties set on the physical element are exactly the
\* constant ones of the node it was patched to.
C22_PatchedElementShowsNextConstants ==
  Emitted =>
    \A n \in Patched :
      /\ world.ni[n].attrs = Constants(world.ni[n].vnode.attrs)
      /\ world.ni[n].style = Constants(world.ni[n].vnode.style)

\* --------------------------------------------------------------- C23
\* the bindings of element n that have not ended, for one key
BoundFor(w, n, which, key) ==
  {i \in 1..Len(w.ni[n].bound) :
     w.ni[n].bound[i].which = which /\ w.ni[n].bound[i].key = key}

\* C23: at every state every element has, for each attribute, style and
\* event key, at most one binding that has not ended; each such binding
\* has its teardown recorded under its key, and each recorded teardown is
\* that of such a binding. A key bound again over a binding that had not
\* ended would leave two.
C23_OneRecordedTeardownPerKey ==
  \A n \in DOMAIN world.ni :
    \A which \in {"attrs", "style", "events"} :
      /\ \A key \in {"id", "title", "color", "click"} :
           /\ Cardinality(BoundFor(world, n, which, key)) <= 1
           /\ (BoundFor(world, n, which, key) # {}) <=>
                (key \in DOMAIN world.ni[n].unmounts[which])
      /\ \A i \in 1..Len(world.ni[n].bound) :
           (world.ni[n].bound[i].which = which) =>
             /\ world.ni[n].bound[i].key \in DOMAIN world.ni[n].unmounts[which]
             /\ world.ni[n].unmounts[which][world.ni[n].bound[i].key].of
                  = world.ni[n].bound[i].of

\* an element patched in place has a key bound again after the teardown
\* recorded for it was invoked
C23_Witness ==
  /\ Emitted
  /\ \E n \in Patched : \E i \in 1..Len(world.ops) : \E b \in 1..Len(world.ni[n].bound) :
       /\ world.ops[i].op = "unsubscribe"
       /\ world.ops[i].node = n
       /\ world.ops[i].text = world.ni[n].bound[b].key
       /\ world.ni[n].bound[b].key \in DOMAIN before.ni[n].unmounts[world.ni[n].bound[b].which]

\* --------------------------------------------------------------- C24
\* every stream of sync delivers its list after the call that subscribed
\* it has returned: the regions not yet mounted, in the order they were
\* subscribed
RECURSIVE DeliverLater(_, _)
DeliverLater(w, sync) ==
  LET pending == {r \in DOMAIN w.reg : /\ w.reg[r].active /\ ~w.reg[r].mounted
                                       /\ w.reg[r].sid \in DOMAIN sync}
  IN IF pending = {} \/ w.err THEN w
     ELSE DeliverLater(RegionNext(w, SetMin(pending), sync[w.reg[SetMin(pending)].sid]), sync)

MaxSync == 3
SyncScenarios == {"siblings", "elements", "nested", "deep"}
SyncStreams == {{1}, {2}, {3}, {1, 2}, {1, 3}, {1, 2, 3}}

\* the ways the streams of a scenario may deliver on subscription
SyncMaps(sc) ==
  UNION {{[sid \in D |-> IF sid = 1 THEN l1 ELSE IF sid = 2 THEN l2 ELSE l3] :
            l1 \in Emits(sc, 1), l2 \in Emits(sc, 2), l3 \in Emits(sc, 3)} :
         D \in SyncStreams}

\* world is the program whose streams of last.sync deliver during their
\* subscription, before the same program with the same deliveries made
\* after each call returned
SyncInit ==
  /\ scen \in SyncScenarios
  /\ \E sync \in SyncMaps(scen) :
       /\ world = RootMountWith(RootList(scen), sync)
       /\ before = DeliverLater(RootMount(RootList(scen)), sync)
       /\ last = [kind |-> "mount", r |-> 0, sid |-> 0, list |-> <<>>, sync |-> sync]
  /\ emits = 0

\* a subscribed stream delivers a list to region r of both programs
SyncEmit(r, list) ==
  /\ emits < MaxSync
  /\ r \in DOMAIN before.reg
  /\ world.reg[r].active /\ before.reg[r].active
  /\ world.reg[r].sid = before.reg[r].sid
  /\ world' = RegionNext(Fresh(world), r, list)
  /\ before' = DeliverLater(RegionNext(Fresh(before), r, list), last.sync)
  /\ last' = [last EXCEPT !.kind = "emit", !.r = r, !.sid = world.reg[r].sid,
                          !.list = list]
  /\ emits' = emits + 1
  /\ UNCHANGED scen

SyncNext ==
  \E r \in DOMAIN world.reg : \E list \in Emits(scen, world.reg[r].sid) : SyncEmit(r, list)

SpecSync == SyncInit /\ [][SyncNext]_vars

\* a slot map as what each slot shows: nothing, or the text or tag of the
\* record it holds
Shape(w, spaces) ==
  [space \in DOMAIN spaces |->
     [position \in DOMAIN spaces[space] |->
        IF spaces[space][position] = Null THEN [held |-> FALSE, show |-> ""]
        ELSE [held |-> TRUE,
              show |-> IF IsVText(w.ni[spaces[space][position]].vnode)
                       THEN w.ni[spaces[space][position]].text
                       ELSE w.ni[spaces[space][position]].vnode.name]]]

\* a stream delivered during its subscription while later items of the
\* list were still to be mounted
SyncDelivered(w) ==
  \E r \in DOMAIN w.reg :
    /\ w.reg[r].sid \in DOMAIN w.sync
    /\ w.reg[r].mounted
    /\ w.reg[r].prevs # <<>>
    /\ \E i \in 1..Len(w.calls) :
         /\ w.calls[i].call = "addition"
         /\ w.calls[i].ok = w.reg[r].pk /\ w.calls[i].id = w.reg[r].pid
         /\ w.calls[i].space > w.reg[r].idx
         /\ \E j \in 1..(i - 1) :
              /\ w.calls[j].call = "insert"
              /\ w.calls[j].ok = "region" /\ w.calls[j].id = r

Registered(w, ok, oid) ==
  {OwnerCancels(w, ok, oid)[sid] : sid \in DOMAIN OwnerCancels(w, ok, oid)}

\* C25: after every mount or reconcile, every region that a level
\* subscribed and that is still active has its cancel in the
\* cancellations registry of that level, also when one stream stands at
\* two indices of a list.
C25_ActiveRegionsAreRegistered ==
  ~world.err =>
    \A r \in DOMAIN world.reg :
      world.reg[r].active => r \in Registered(world, world.reg[r].pk, world.reg[r].pid)

====
